---- MODULE Spec2Model ----
(***************************************************************************)
(* react-markdown-with-mdx: withMdx(MarkdownComponent) returns the         *)
(* component ReactMarkdownWithMdx, which merges the caller's props with    *)
(* the plugins and options MDX needs and hands the result to the wrapped   *)
(* markdown component.  mdxComponent(Component, validator) returns the     *)
(* function that validates a node's properties and children and creates    *)
(* the element of Component from the validator's output.                   *)
(*                                                                         *)
(* JavaScript values are tagged records, so that undefined, null, arrays   *)
(* and objects can be told apart and compared.  A props object is a        *)
(* function from its own keys to values; reading a key it does not have    *)
(* yields undefined.                                                       *)
(***************************************************************************)
EXTENDS Integers, Sequences, FiniteSets, TLC

VARIABLES props, passed, output, pc, mdxArgs, mdxPc, trace, mdxResult,
          callerData, heap, history

vars == <<props, passed, output, pc, mdxArgs, mdxPc, trace, mdxResult,
         callerData, heap, history>>

----------------------------------------------------------------------------
(* Bounds *)

\* longest plugin list a caller supplies
MaxPlugins == 2
\* most MDX elements nested in the document's top-level MDX element
MaxKids == 1
\* renders of one component the model follows
MaxRenders == 2

----------------------------------------------------------------------------
(* JavaScript values *)

Undefined == [tag |-> "undefined"]
Null == [tag |-> "null"]
Absent == [tag |-> "absent"]
Arr(s) == [tag |-> "array", items |-> s]
Str(s) == [tag |-> "string", value |-> s]
Bool(b) == [tag |-> "boolean", value |-> b]
\* an object whose own keys, in insertion order, are ks; the value of key k
\* of a components object is the renderer the caller registered under k
Components(ks) == [tag |-> "object", keys |-> ks]
\* an options object: a function from its own keys to values
Obj(f) == [tag |-> "object", fields |-> f]
\* the markdown source, given by the MDX elements remark-mdx parses from it
Markdown(doc) == [tag |-> "markdown", doc |-> doc]

EmptyObject == [k \in {} |-> Undefined]

Range(s) == {s[i] : i \in DOMAIN s}

\* o[k] in JavaScript: undefined when o has no own key k
Get(o, k) == IF k \in DOMAIN o THEN o[k] ELSE Undefined

\* one property of an object literal, left out when the caller omits it
Field(k, v) == IF v = Absent THEN EmptyObject ELSE (k :> v)

\* x ?? []
OrEmpty(x) == IF x = Undefined \/ x = Null THEN <<>> ELSE x.items

\* ...o in an object literal: the own keys of o, none for null or undefined
Spread(o) == IF o = Undefined \/ o = Null THEN EmptyObject ELSE o.fields

\* Object.keys(o)
ObjectKeys(o) == o.keys

\* a plugin given bare, and a plugin given as the tuple [plugin, options]
Plugin(f) == [tag |-> "plugin", fn |-> f]
PluginWithOptions(f, o) == [tag |-> "tuple", fn |-> f, options |-> o]

remarkMdx == Plugin("remarkMdx")
remarkUnravelMdx == Plugin("remarkUnravelMdx")
MdxPassThrough == Arr(<<"mdxJsxFlowElement", "mdxJsxTextElement">>)

----------------------------------------------------------------------------
(* ReactMarkdownWithMdx, src/index.ts *)

\* the props the parameter list takes out of the props object
Destructured ==
  {"components", "remarkPlugins", "remarkMdxPlugins", "rehypePlugins",
   "remarkRehypeOptions"}

\* ...props of the parameter list
RestProps(p) == [k \in (DOMAIN p) \ Destructured |-> p[k]]

\* remarkUnravelMdx appended after both caller lists
mergedRemarkPlugins_UnravelLast(remarkPlugins, remarkMdxPlugins) ==
  Arr(<<remarkMdx>> \o OrEmpty(remarkPlugins)
        \o OrEmpty(remarkMdxPlugins) \o <<remarkUnravelMdx>>)

\* both required plugins first, the caller's lists appended
mergedRemarkPlugins_RequiredFirst(remarkPlugins, remarkMdxPlugins) ==
  Arr(<<remarkMdx, remarkUnravelMdx>> \o OrEmpty(remarkPlugins)
        \o OrEmpty(remarkMdxPlugins))

\* remarkUnravelMdx added only when remarkMdxPlugins is given
mergedRemarkPlugins_UnravelOnlyWithMdxPlugins(remarkPlugins, remarkMdxPlugins) ==
  IF remarkMdxPlugins = Undefined \/ remarkMdxPlugins = Null
    THEN Arr(<<remarkMdx>> \o OrEmpty(remarkPlugins))
    ELSE Arr(<<remarkMdx>> \o OrEmpty(remarkPlugins)
               \o <<remarkUnravelMdx>> \o remarkMdxPlugins.items)

mergedRemarkPlugins(remarkPlugins, remarkMdxPlugins) ==
  Arr(<<remarkMdx>> \o OrEmpty(remarkPlugins)
        \o <<remarkUnravelMdx>> \o OrEmpty(remarkMdxPlugins))

\* the first key of components left out of the allowlist
allowedComponents_SkipsFirstKey(components) ==
  IF components = Undefined \/ components = Null
    THEN Undefined
    ELSE Arr(SubSeq(ObjectKeys(components), 2, Len(ObjectKeys(components))))

allowedComponents(components) ==
  IF components = Undefined \/ components = Null
    THEN Undefined
    ELSE Arr(ObjectKeys(components))

\* the caller's rehype plugins placed before rehypeMdxElements
mergedRehypePlugins_CallerFirst(components, rehypePlugins) ==
  Arr(OrEmpty(rehypePlugins)
        \o <<PluginWithOptions("rehypeMdxElements",
               "allowedElements" :> allowedComponents(components))>>)

\* the caller's rehype plugins taking the place of the required one
mergedRehypePlugins_CallerReplaces(components, rehypePlugins) ==
  IF OrEmpty(rehypePlugins) = <<>>
    THEN Arr(<<PluginWithOptions("rehypeMdxElements",
                 "allowedElements" :> allowedComponents(components))>>)
    ELSE Arr(OrEmpty(rehypePlugins))

mergedRehypePlugins(components, rehypePlugins) ==
  Arr(<<PluginWithOptions("rehypeMdxElements",
          "allowedElements" :> allowedComponents(components))>>
        \o OrEmpty(rehypePlugins))

\* { ...remarkRehypeOptions, passThrough: [...] }: the default wins
mergedRemarkRehypeOptions_DefaultWins(remarkRehypeOptions) ==
  Obj(("passThrough" :> MdxPassThrough) @@ Spread(remarkRehypeOptions))

\* { passThrough: [...], ...remarkRehypeOptions }: a later key wins
mergedRemarkRehypeOptions(remarkRehypeOptions) ==
  Obj(Spread(remarkRehypeOptions) @@ ("passThrough" :> MdxPassThrough))

\* the whole props object spread, remarkMdxPlugins included
ReactMarkdownWithMdx_SpreadsAllProps(p) ==
  LET components == Get(p, "components")
      remarkPlugins == Get(p, "remarkPlugins")
      remarkMdxPlugins == Get(p, "remarkMdxPlugins")
      rehypePlugins == Get(p, "rehypePlugins")
      remarkRehypeOptions == Get(p, "remarkRehypeOptions")
  IN  ("remarkRehypeOptions" :> mergedRemarkRehypeOptions(remarkRehypeOptions))
        @@ ("rehypePlugins" :> mergedRehypePlugins(components, rehypePlugins))
        @@ ("remarkPlugins" :> mergedRemarkPlugins(remarkPlugins, remarkMdxPlugins))
        @@ ("components" :> components)
        @@ p

\* disallowedElements taken out of the props and not handed on
ReactMarkdownWithMdx_DropsDisallowedElements(p) ==
  LET components == Get(p, "components")
      remarkPlugins == Get(p, "remarkPlugins")
      remarkMdxPlugins == Get(p, "remarkMdxPlugins")
      rehypePlugins == Get(p, "rehypePlugins")
      remarkRehypeOptions == Get(p, "remarkRehypeOptions")
  IN  ("remarkRehypeOptions" :> mergedRemarkRehypeOptions(remarkRehypeOptions))
        @@ ("rehypePlugins" :> mergedRehypePlugins(components, rehypePlugins))
        @@ ("remarkPlugins" :> mergedRemarkPlugins(remarkPlugins, remarkMdxPlugins))
        @@ ("components" :> components)
        @@ [k \in (DOMAIN p) \ (Destructured \cup {"disallowedElements"}) |-> p[k]]

\* the props object createElement(MarkdownComponent, {...}) receives
ReactMarkdownWithMdx(p) ==
  LET components == Get(p, "components")
      remarkPlugins == Get(p, "remarkPlugins")
      remarkMdxPlugins == Get(p, "remarkMdxPlugins")
      rehypePlugins == Get(p, "rehypePlugins")
      remarkRehypeOptions == Get(p, "remarkRehypeOptions")
  IN  ("remarkRehypeOptions" :> mergedRemarkRehypeOptions(remarkRehypeOptions))
        @@ ("rehypePlugins" :> mergedRehypePlugins(components, rehypePlugins))
        @@ ("remarkPlugins" :> mergedRemarkPlugins(remarkPlugins, remarkMdxPlugins))
        @@ ("components" :> components)
        @@ RestProps(p)

----------------------------------------------------------------------------
(* ReactMarkdownWithMdx over objects with identity: the heap is the       *)
(* sequence of the objects allocated so far, a reference is an index into *)
(* it, and every array or object literal of the function allocates.       *)

Ref(id) == [tag |-> "ref", id |-> id]

\* the props with every reference replaced by the object it points to
Deref(h, p) == [k \in DOMAIN p |-> IF p[k].tag = "ref" THEN h[p[k].id] ELSE p[k]]

\* remarkPlugins.unshift(remarkMdx), remarkPlugins.push(...): the merged list
\* is built inside the caller's own remarkPlugins array
RenderOnHeap_MergesIntoCallerList(h, p) ==
  LET out == ReactMarkdownWithMdx(Deref(h, p))
      n == Len(h)
      remarkPlugins == Get(p, "remarkPlugins")
  IN  IF remarkPlugins = Undefined
        THEN [heap |-> h \o <<out["remarkPlugins"], out["rehypePlugins"],
                              out["remarkRehypeOptions"]>>,
              passed |-> ("remarkPlugins" :> Ref(n + 1))
                           @@ ("rehypePlugins" :> Ref(n + 2))
                           @@ ("remarkRehypeOptions" :> Ref(n + 3))
                           @@ ("components" :> Get(p, "components"))
                           @@ RestProps(p)]
        ELSE [heap |-> [h EXCEPT ![remarkPlugins.id] = out["remarkPlugins"]]
                         \o <<out["rehypePlugins"], out["remarkRehypeOptions"]>>,
              passed |-> ("remarkPlugins" :> remarkPlugins)
                           @@ ("rehypePlugins" :> Ref(n + 1))
                           @@ ("remarkRehypeOptions" :> Ref(n + 2))
                           @@ ("components" :> Get(p, "components"))
                           @@ RestProps(p)]

\* one call of ReactMarkdownWithMdx: the three literals mergedRemarkPlugins,
\* mergedRehypePlugins and mergedRemarkRehypeOptions are new objects, the
\* caller's objects are only read, components is handed on as it came
RenderOnHeap(h, p) ==
  LET out == ReactMarkdownWithMdx(Deref(h, p))
      n == Len(h)
  IN  [heap |-> h \o <<out["remarkPlugins"], out["rehypePlugins"],
                        out["remarkRehypeOptions"]>>,
       passed |-> ("remarkPlugins" :> Ref(n + 1))
                    @@ ("rehypePlugins" :> Ref(n + 2))
                    @@ ("remarkRehypeOptions" :> Ref(n + 3))
                    @@ ("components" :> Get(p, "components"))
                    @@ RestProps(p)]

----------------------------------------------------------------------------
(* mdxComponent, src/index.ts *)

\* { ...node?.properties, children }: the children prop wins over a
\* children entry of node.properties
\* { children, ...node?.properties }: the node's own children entry wins
ValidatedObject_PropertiesWin(node, children) ==
  (IF node = Undefined THEN EmptyObject ELSE node.properties)
    @@ ("children" :> children)

ValidatedObject(node, children) ==
  ("children" :> children)
    @@ (IF node = Undefined THEN EmptyObject ELSE node.properties)

\* a zod object schema: shape gives the kind of each key it knows, and
\* unknownKeys what happens to the keys it does not know
\*   "string"  z.string()                  the key must hold a string
\*   "upper"   z.string().transform(...)   a string, handed on transformed
\*   "any"     z.any()                     anything, also nothing
Accepts(kind, o, k) ==
  IF kind = "any" THEN TRUE ELSE k \in DOMAIN o /\ o[k].tag = "string"

Transformed(v) == [tag |-> "string", value |-> <<"upper", v.value>>]

Issues(schema, o) ==
  {k \in DOMAIN schema.shape : ~Accepts(schema.shape[k], o, k)}
    \cup (IF schema.unknownKeys = "strict"
            THEN (DOMAIN o) \ (DOMAIN schema.shape)
            ELSE {})

ParsedKeys(schema, o) ==
  {k \in DOMAIN schema.shape : schema.shape[k] # "any" \/ k \in DOMAIN o}
    \cup (IF schema.unknownKeys = "passthrough"
            THEN (DOMAIN o) \ (DOMAIN schema.shape)
            ELSE {})

ZodError(issues) == [tag |-> "ZodError", issues |-> issues]

\* validator.parse(o): a new object on success, a thrown ZodError otherwise
parse(schema, o) ==
  IF Issues(schema, o) = {}
    THEN [ok |-> TRUE,
          value |-> [k \in ParsedKeys(schema, o) |->
                       IF k \in DOMAIN schema.shape /\ schema.shape[k] = "upper"
                         THEN Transformed(o[k])
                         ELSE o[k]]]
    ELSE [ok |-> FALSE, value |-> ZodError(Issues(schema, o))]

\* createElement(type, config): React takes config.key as the element's
\* key and copies every other own property of config into props
ReservedProps == {"key"}
createElement(type, config) ==
  [type |-> type,
   key |-> Get(config, "key"),
   props |-> [k \in (DOMAIN config) \ ReservedProps |-> config[k]]]

NoError == [tag |-> "none"]
NoElement == [type |-> "none", key |-> Undefined, props |-> EmptyObject]

Event(e, v) == [event |-> e, value |-> v]

\* the function mdxComponent(Component, validator) returns, called with
\* {node, children}: the calls it makes in order, and how it ends
\* the validator's error is caught and the raw input rendered instead
ReactMarkownComponent_RendersInvalid(validator, node, children) ==
  LET input == ValidatedObject(node, children)
      r == parse(validator, input)
  IN  [events |-> <<Event("validator.parse", input),
                    Event(IF r.ok THEN "returned" ELSE "threw", r.value)>>,
       thrown |-> NoError,
       element |-> createElement("Component", IF r.ok THEN r.value ELSE input)]

\* the validator's error is caught and rethrown inside another error
ReactMarkownComponent_WrapsError(validator, node, children) ==
  LET input == ValidatedObject(node, children)
      r == parse(validator, input)
  IN  IF r.ok
        THEN [events |-> <<Event("validator.parse", input), Event("returned", r.value)>>,
              thrown |-> NoError,
              element |-> createElement("Component", r.value)]
        ELSE [events |-> <<Event("validator.parse", input), Event("threw", r.value)>>,
              thrown |-> [tag |-> "Error", cause |-> r.value],
              element |-> NoElement]

\* the validator is called but the raw merged input is what is rendered
ReactMarkownComponent_PassesRawInput(validator, node, children) ==
  LET input == ValidatedObject(node, children)
      r == parse(validator, input)
  IN  IF r.ok
        THEN [events |-> <<Event("validator.parse", input), Event("returned", r.value)>>,
              thrown |-> NoError,
              element |-> createElement("Component", input)]
        ELSE [events |-> <<Event("validator.parse", input), Event("threw", r.value)>>,
              thrown |-> r.value,
              element |-> NoElement]

ReactMarkownComponent(validator, node, children) ==
  LET input == ValidatedObject(node, children)
      r == parse(validator, input)
  IN  IF r.ok
        THEN [events |-> <<Event("validator.parse", input), Event("returned", r.value)>>,
              thrown |-> NoError,
              element |-> createElement("Component", r.value)]
        ELSE [events |-> <<Event("validator.parse", input), Event("threw", r.value)>>,
              thrown |-> r.value,
              element |-> NoElement]

----------------------------------------------------------------------------
(* The caller's inputs *)

ComponentNames == {"TestButton", "TestAlert"}
UserPlugins == {"pluginA", "pluginB"}

SeqsUpTo(S, n) == UNION {[1..m -> S] : m \in 0..n}

\* key lists without a repeated key: an object has each own key once
KeyLists == {ks \in SeqsUpTo(ComponentNames, Cardinality(ComponentNames)) :
               \A i, j \in DOMAIN ks : i # j => ks[i] # ks[j]}

ComponentsValues == {Absent, Null} \cup {Components(ks) : ks \in KeyLists}

PluginListValues ==
  {Absent, Null}
    \cup {Arr([i \in DOMAIN s |-> Plugin(s[i])]) : s \in SeqsUpTo(UserPlugins, MaxPlugins)}

OptionsObjects ==
  {Obj(Field("passThrough", pt) @@ Field("footnoteLabel", fl)) :
     pt \in {Absent, Undefined, Arr(<<>>), Arr(<<"mdxJsxFlowElement">>),
             Arr(<<"yaml", "mdxJsxFlowElement", "mdxJsxTextElement">>)},
     fl \in {Absent, Str("Custom footnotes")}}

OptionsValues == {Absent, Null} \cup OptionsObjects

\* an MDX element of the document: its name, its node type, the MDX
\* elements nested in it
MdxNodeTypes == {"mdxJsxFlowElement", "mdxJsxTextElement"}
Leaves == [name : ComponentNames, type : MdxNodeTypes, kids : {<<>>}]
Documents == [name : ComponentNames, type : MdxNodeTypes, kids : SeqsUpTo(Leaves, MaxKids)]

ElementListValues ==
  {Absent, Arr(<<"TestButton">>), Arr(<<"TestButton", "TestAlert">>)}

TestDocument ==
  [name |-> "TestButton", type |-> "mdxJsxFlowElement",
   kids |-> <<[name |-> "TestAlert", type |-> "mdxJsxTextElement", kids |-> <<>>]>>]

\* the props objects a caller renders the component with
MakeProps(c, rp, rmp, hp, rro, ch, ae, de, sh) ==
  Field("components", c) @@ Field("remarkPlugins", rp)
    @@ Field("remarkMdxPlugins", rmp) @@ Field("rehypePlugins", hp)
    @@ Field("remarkRehypeOptions", rro) @@ Field("children", ch)
    @@ Field("allowedElements", ae) @@ Field("disallowedElements", de)
    @@ Field("skipHtml", sh)

\* what a node's properties and a schema speak of
PropertyNames == {"title", "children", "key"}
PropertyValues == {Str("hello"), Bool(TRUE)}

PropertyObjects ==
  UNION {[ks -> PropertyValues] : ks \in SUBSET PropertyNames}

\* the node prop: left out, or an element with its properties
NodeValues ==
  {Undefined} \cup {[tag |-> "element", properties |-> f] : f \in PropertyObjects}

\* the children prop: left out, or what was rendered inside the element
ChildrenValues == {Undefined, Str("rendered children")}

SchemaKinds == {"string", "upper", "any"}

Validators ==
  [shape : UNION {[ks -> SchemaKinds] : ks \in SUBSET PropertyNames},
   unknownKeys : {"strip", "passthrough", "strict"}]

\* the objects a caller holds and hands to render after render, in the
\* order of the parameter list
CallerProps ==
  <<"components", "remarkPlugins", "remarkMdxPlugins", "rehypePlugins",
    "remarkRehypeOptions">>

CallerRef(k) == Ref(CHOOSE i \in DOMAIN CallerProps : CallerProps[i] = k)

CallerDataValues ==
  {<<Components(<<"TestButton", "TestAlert">>), rp, rmp,
     Arr(<<Plugin("pluginA")>>), o>> :
     rp \in {Arr(<<>>), Arr(<<Plugin("pluginA")>>)},
     rmp \in {Arr(<<>>), Arr(<<Plugin("pluginB")>>)},
     o \in {Obj("footnoteLabel" :> Str("Custom footnotes")),
            Obj("passThrough" :> Arr(<<"yaml">>))}}

\* the props of one render: each of the caller's objects, or the prop omitted
RerenderProps ==
  {Field("components", c) @@ Field("remarkPlugins", rp)
     @@ Field("remarkMdxPlugins", rmp) @@ Field("rehypePlugins", hp)
     @@ Field("remarkRehypeOptions", rro) :
     c \in {Absent, CallerRef("components")},
     rp \in {Absent, CallerRef("remarkPlugins")},
     rmp \in {Absent, CallerRef("remarkMdxPlugins")},
     hp \in {Absent, CallerRef("rehypePlugins")},
     rro \in {Absent, CallerRef("remarkRehypeOptions")}}

----------------------------------------------------------------------------
(* The wrapped component: react-markdown with the plugins it is handed *)

\* remark-rehype passes a node through to the rehype plugins when its type
\* is in options.passThrough
PassThroughTypes(options) ==
  LET pt == Get(options.fields, "passThrough")
  IN  IF pt.tag = "array" THEN Range(pt.items) ELSE {}

IsPassedThrough(n, p) ==
  n.type \in PassThroughTypes(Get(p, "remarkRehypeOptions"))

\* a node that is not passed through is not an MDX element any more: it
\* reaches the rehype plugins as a generic div around its children
TagName(n, p) == IF IsPassedThrough(n, p) THEN n.name ELSE "div"

\* the rehypeMdxElements entries of the rehype plugin list
MdxElementsEntries(p) ==
  {e \in Range(Get(p, "rehypePlugins").items) : e.fn = "rehypeMdxElements"}

\* rehypeMdxElements({allowedElements}) turns an MDX element into an element
\* of its name when the name is allowed, and removes it with its children
\* otherwise; without a list nothing is removed
rehypeMdxElements(n, allowedElements) ==
  \/ allowedElements.tag # "array"
  \/ n.name \in Range(allowedElements.items)

KeptByMdxElements(n, p) ==
  \/ ~IsPassedThrough(n, p)
  \/ /\ MdxElementsEntries(p) # {}
     /\ \A e \in MdxElementsEntries(p) :
          rehypeMdxElements(n, e.options["allowedElements"])

\* react-markdown refuses allowedElements together with disallowedElements
CombinedFilters(p) ==
  /\ Get(p, "allowedElements").tag = "array"
  /\ Get(p, "disallowedElements").tag = "array"

\* react-markdown's own filter removes an element, children included
FilterRemoves(tagName, p) ==
  LET allowedElements == Get(p, "allowedElements")
      disallowedElements == Get(p, "disallowedElements")
  IN  IF allowedElements.tag = "array"
        THEN tagName \notin Range(allowedElements.items)
        ELSE IF disallowedElements.tag = "array"
               THEN tagName \in Range(disallowedElements.items)
               ELSE FALSE

Survives(n, p) == KeptByMdxElements(n, p) /\ ~FilterRemoves(TagName(n, p), p)

\* an element is rendered through components[tagName] when components has
\* that key, and as a plain tag otherwise
ThroughComponent(tagName, p) ==
  LET components == Get(p, "components")
  IN  components.tag = "object" /\ tagName \in Range(ObjectKeys(components))

Element(path, n, p) ==
  [path |-> path, tagName |-> TagName(n, p),
   component |-> ThroughComponent(TagName(n, p), p)]

\* what the wrapped component renders of the document's MDX elements; the
\* text inside an element is rendered exactly when the element is
MarkdownComponent(p) ==
  LET children == Get(p, "children")
      root == children.doc
  IN  IF CombinedFilters(p)
        THEN [error |-> TRUE, elements |-> {}]
        ELSE IF children.tag # "markdown" \/ ~Survives(root, p)
          THEN [error |-> FALSE, elements |-> {}]
          ELSE [error |-> FALSE,
                elements |->
                  {Element(<<1>>, root, p)}
                    \cup {Element(<<1, j>>, root.kids[j], p) :
                            j \in {i \in DOMAIN root.kids : Survives(root.kids[i], p)}}]

----------------------------------------------------------------------------
(* State machine *)

NoOutput == [error |-> FALSE, elements |-> {}]

NoMdxArgs == [validator |-> [shape |-> EmptyObject, unknownKeys |-> "strip"],
              node |-> Undefined, children |-> Undefined]
NoMdxResult == [thrown |-> NoError, element |-> NoElement]

\* no component made by mdxComponent is rendered
MdxNotCalled ==
  /\ mdxArgs = NoMdxArgs
  /\ mdxPc = "idle"
  /\ trace = <<>>
  /\ mdxResult = NoMdxResult

\* no component made by withMdx is rendered
WithMdxNotCalled ==
  /\ props = EmptyObject
  /\ passed = EmptyObject
  /\ output = NoOutput
  /\ pc = "idle"

\* no caller objects are followed over renders
NotRerendered ==
  /\ callerData = <<>>
  /\ heap = <<>>
  /\ history = <<>>

rerenderVars == <<callerData, heap, history>>

mdxVars == <<mdxArgs, mdxPc, trace, mdxResult>>

\* a render with any plugin lists
Init ==
  /\ \E c \in ComponentsValues, rp \in PluginListValues, rmp \in PluginListValues,
        hp \in PluginListValues,
        rro \in {Absent, Obj("footnoteLabel" :> Str("Custom footnotes")),
                 Obj("passThrough" :> Arr(<<>>))},
        rest \in {<<Absent, Absent, Absent>>,
                  <<Markdown(TestDocument), Arr(<<"script">>), Bool(FALSE)>>} :
       props = MakeProps(c, rp, rmp, hp, rro, rest[1], Absent, rest[2], rest[3])
  /\ passed = EmptyObject
  /\ output = NoOutput
  /\ pc = "idle"
  /\ MdxNotCalled
  /\ NotRerendered

\* a render of any document under any element filters, the caller's
\* remarkRehypeOptions having no passThrough of its own
InitRender ==
  /\ \E c \in ComponentsValues,
        rro \in {Absent, Null, Obj(EmptyObject),
                 Obj("footnoteLabel" :> Str("Custom footnotes"))},
        d \in Documents,
        ae \in ElementListValues, de \in {Absent, Arr(<<"TestButton">>)} :
       props = MakeProps(c, Absent, Absent, Absent, rro, Markdown(d), ae, de, Absent)
  /\ passed = EmptyObject
  /\ output = NoOutput
  /\ pc = "idle"
  /\ MdxNotCalled
  /\ NotRerendered

\* a render of any document with any remarkRehypeOptions
InitOptions ==
  /\ \E c \in ComponentsValues, rro \in OptionsValues, d \in Documents,
        ae \in ElementListValues, de \in {Absent, Arr(<<"TestButton">>)} :
       props = MakeProps(c, Absent, Absent, Absent, rro, Markdown(d), ae, de, Absent)
  /\ passed = EmptyObject
  /\ output = NoOutput
  /\ pc = "idle"
  /\ MdxNotCalled
  /\ NotRerendered

\* React calls ReactMarkdownWithMdx with the caller's props; it returns
\* createElement(MarkdownComponent, merged props)
Render ==
  /\ pc = "idle"
  /\ passed' = ReactMarkdownWithMdx(props)
  /\ pc' = "created"
  /\ UNCHANGED <<props, output, mdxVars, rerenderVars>>

\* React renders the element: the wrapped component runs on the props it
\* was handed
RenderMarkdown ==
  /\ pc = "created"
  /\ output' = MarkdownComponent(passed)
  /\ pc' = "rendered"
  /\ UNCHANGED <<props, passed, mdxVars, rerenderVars>>

Next == Render \/ RenderMarkdown

Spec == Init /\ [][Next]_vars

SpecRender == InitRender /\ [][Next]_vars

SpecOptions == InitOptions /\ [][Next]_vars

\* a render of the component mdxComponent(Component, validator) returns,
\* for any validator, node and children
InitMdx ==
  /\ \E v \in Validators, n \in NodeValues, c \in ChildrenValues :
       mdxArgs = [validator |-> v, node |-> n, children |-> c]
  /\ mdxPc = "idle"
  /\ trace = <<>>
  /\ mdxResult = NoMdxResult
  /\ WithMdxNotCalled
  /\ NotRerendered

\* react-markdown renders the element: it calls the function with
\* {node, children}, which validates and returns an element or throws
RenderMdxComponent ==
  /\ mdxPc = "idle"
  /\ LET r == ReactMarkownComponent(mdxArgs.validator, mdxArgs.node, mdxArgs.children)
     IN  /\ trace' = trace \o r.events
         /\ mdxResult' = [thrown |-> r.thrown, element |-> r.element]
         /\ mdxPc' = IF r.thrown = NoError /\ r.element # NoElement
                       THEN "created"
                       ELSE "ended"
  /\ UNCHANGED <<mdxArgs, props, passed, output, pc, rerenderVars>>

\* React renders the returned element: it calls Component with its props
InvokeComponent ==
  /\ mdxPc = "created"
  /\ trace' = Append(trace, Event("Component", mdxResult.element.props))
  /\ mdxPc' = "invoked"
  /\ UNCHANGED <<mdxArgs, mdxResult, props, passed, output, pc, rerenderVars>>

NextMdx == RenderMdxComponent \/ InvokeComponent

SpecMdx == InitMdx /\ [][NextMdx]_vars

\* a caller holding its plugin lists, options and components, about to
\* render the component returned by withMdx several times
InitRerender ==
  /\ callerData \in CallerDataValues
  /\ heap = callerData
  /\ history = <<>>
  /\ WithMdxNotCalled
  /\ MdxNotCalled

\* one more render of the same component, with any of the caller's objects
Rerender ==
  /\ Len(history) < MaxRenders
  /\ \E p \in RerenderProps :
       LET r == RenderOnHeap(heap, p)
       IN  /\ heap' = r.heap
           /\ history' = Append(history, [props |-> p, passed |-> r.passed])
  /\ UNCHANGED <<callerData, props, passed, output, pc, mdxVars>>

NextRerender == Rerender

SpecRerender == InitRerender /\ [][NextRerender]_vars

----------------------------------------------------------------------------
(* Properties *)

\* the caller's values as the handler reads them
CallerComponents == Get(props, "components")
CallerRemarkPlugins == OrEmpty(Get(props, "remarkPlugins"))
CallerRemarkMdxPlugins == OrEmpty(Get(props, "remarkMdxPlugins"))
CallerRehypePlugins == OrEmpty(Get(props, "rehypePlugins"))
CallerOptions == Spread(Get(props, "remarkRehypeOptions"))

\* the values the wrapped component was handed
PassedRemarkPlugins == passed["remarkPlugins"].items
PassedRehypePlugins == passed["rehypePlugins"].items
PassedOptions == passed["remarkRehypeOptions"].fields
\* every allowedElements value handed to a rehypeMdxElements entry
HandedAllowedElements ==
  {e.options["allowedElements"] : e \in MdxElementsEntries(passed)}

KeysOf(components) ==
  IF components.tag = "object" THEN Range(ObjectKeys(components)) ELSE {}

IsCallerPlugin(e) == e.tag = "plugin" /\ e.fn \in UserPlugins
IsRequiredRemarkPlugin(e) == e = remarkMdx \/ e = remarkUnravelMdx
IsMdxElementsEntry(e) == e.fn = "rehypeMdxElements"

\* C1: when a components map is supplied, the allowedElements handed to
\* rehypeMdxElements is a list holding every key of the map and no other name.
C1_AllowlistIsComponentKeys ==
  (pc # "idle" /\ CallerComponents.tag = "object") =>
    /\ Cardinality(HandedAllowedElements) = 1
    /\ \A a \in HandedAllowedElements :
         /\ a.tag = "array"
         /\ Range(a.items) = KeysOf(CallerComponents)
         /\ Len(a.items) = Cardinality(KeysOf(CallerComponents))

C1_Witness ==
  /\ pc = "created"
  /\ CallerComponents.tag = "object"
  /\ Len(ObjectKeys(CallerComponents)) = 2
  /\ Arr(ObjectKeys(CallerComponents)) \in HandedAllowedElements

\* C2: in every render, also one without components (omitted or null), the
\* names the handed allowlist permits are keys of components; a handed value
\* that is no list restricts nothing, so it permits every name.
C2_PermittedNamesAreComponentKeys ==
  pc # "idle" =>
    \A a \in HandedAllowedElements : \A name \in ComponentNames :
      rehypeMdxElements([name |-> name], a) => name \in KeysOf(CallerComponents)

\* C4 as claimed: in the merged remark list every required plugin stands
\* before every plugin of the caller.
C4_RequiredBeforeEveryCallerPlugin ==
  pc # "idle" =>
    \A i, j \in DOMAIN PassedRemarkPlugins :
      (IsRequiredRemarkPlugin(PassedRemarkPlugins[i])
         /\ IsCallerPlugin(PassedRemarkPlugins[j])) => i < j

\* C4 amended: remarkMdx is first, before every plugin of the caller;
\* remarkUnravelMdx stands after the plugins of remarkPlugins and before
\* the plugins of remarkMdxPlugins.
C4_RemarkMdxFirstUnravelBetween ==
  pc # "idle" =>
    LET m == PassedRemarkPlugins
        unravel == {i \in DOMAIN m : m[i] = remarkUnravelMdx}
    IN  /\ {i \in DOMAIN m : m[i] = remarkMdx} = {1}
        /\ Cardinality(unravel) = 1
        /\ \A u \in unravel :
             /\ SubSeq(m, 2, u - 1) = CallerRemarkPlugins
             /\ SubSeq(m, u + 1, Len(m)) = CallerRemarkMdxPlugins

C4_Witness ==
  /\ pc = "created"
  /\ Len(CallerRemarkPlugins) = 2
  /\ Len(CallerRemarkMdxPlugins) = 1
  /\ PassedRemarkPlugins[4] = remarkUnravelMdx

\* C5: the merged rehype list starts with [rehypeMdxElements,
\* {allowedElements}] and the caller's rehype plugins follow in their order,
\* so none of them runs before the MDX conversion.
C5_MdxElementsFirst ==
  pc # "idle" =>
    LET m == PassedRehypePlugins
    IN  /\ Len(m) >= 1
        /\ m[1].tag = "tuple"
        /\ m[1].fn = "rehypeMdxElements"
        /\ DOMAIN m[1].options = {"allowedElements"}
        /\ \A i \in DOMAIN CallerRehypePlugins : 1 + i \in DOMAIN m /\ m[1 + i] = CallerRehypePlugins[i]
        /\ \A i \in DOMAIN m : IsCallerPlugin(m[i]) => i > 1

C5_Witness ==
  /\ pc = "created"
  /\ Len(CallerRehypePlugins) = 2
  /\ CallerRehypePlugins[1] # CallerRehypePlugins[2]
  /\ IsMdxElementsEntry(PassedRehypePlugins[1])
  /\ PassedRehypePlugins[3] = CallerRehypePlugins[2]

\* C6: the merged lists are additive: taking the required entries out of a
\* merged list leaves the caller's entries, each once and in the caller's
\* order; the remark list has 2 + |remarkPlugins| + |remarkMdxPlugins|
\* entries and the rehype list 1 + |rehypePlugins|.
C6_PluginListsAdditive ==
  pc # "idle" =>
    /\ SelectSeq(PassedRemarkPlugins, IsCallerPlugin)
         = CallerRemarkPlugins \o CallerRemarkMdxPlugins
    /\ SelectSeq(PassedRehypePlugins, IsCallerPlugin) = CallerRehypePlugins
    /\ Len(PassedRemarkPlugins)
         = 2 + Len(CallerRemarkPlugins) + Len(CallerRemarkMdxPlugins)
    /\ Len(PassedRehypePlugins) = 1 + Len(CallerRehypePlugins)

C6_Witness ==
  /\ pc = "created"
  /\ Len(CallerRemarkPlugins) = 2
  /\ Len(CallerRemarkMdxPlugins) = 2
  /\ Len(CallerRehypePlugins) = 2
  /\ Len(PassedRemarkPlugins) = 6
  /\ Len(PassedRehypePlugins) = 3

C8_PassThroughKeepsMdxNodes ==
  pc # "idle" =>
    MdxNodeTypes \subseteq PassThroughTypes(passed["remarkRehypeOptions"])

\* C9: the wrapped component gets the caller's props with remarkPlugins,
\* rehypePlugins and remarkRehypeOptions replaced by the merged values and
\* remarkMdxPlugins removed; every other prop, components included, arrives
\* with the caller's value.
C9_OtherPropsForwarded ==
  pc # "idle" =>
    /\ (DOMAIN passed) \ Destructured = (DOMAIN props) \ Destructured
    /\ \A k \in (DOMAIN props) \ Destructured : passed[k] = props[k]
    /\ "remarkMdxPlugins" \notin DOMAIN passed
    /\ Get(passed, "components") = Get(props, "components")
    /\ Get(passed, "remarkPlugins")
         = mergedRemarkPlugins(Get(props, "remarkPlugins"), Get(props, "remarkMdxPlugins"))
    /\ Get(passed, "rehypePlugins")
         = mergedRehypePlugins(Get(props, "components"), Get(props, "rehypePlugins"))
    /\ Get(passed, "remarkRehypeOptions")
         = mergedRemarkRehypeOptions(Get(props, "remarkRehypeOptions"))

C9_Witness ==
  /\ pc = "created"
  /\ "remarkMdxPlugins" \in DOMAIN props
  /\ {"children", "skipHtml", "disallowedElements", "components"} \subseteq DOMAIN props
  /\ passed["skipHtml"] = Bool(FALSE)
  /\ passed["children"] = props["children"]
  /\ passed["components"].tag = "object"

\* the MDX elements of the rendered document, by their place in it
Root == props["children"].doc
DocPaths == {<<1>>} \cup {<<1, j>> : j \in DOMAIN Root.kids}
NodeAt(path) == IF Len(path) = 1 THEN Root ELSE Root.kids[path[2]]
IsPrefix(a, b) == Len(a) <= Len(b) /\ SubSeq(b, 1, Len(a)) = a

\* something of the element at path is in the output: the element or what
\* stands for it, and with it its text
Appears(path) == \E e \in output.elements : e.path = path
\* the element at path is rendered under its own name
RenderedAsItself(path) ==
  \E e \in output.elements : e.path = path /\ e.tagName = NodeAt(path).name
\* the element at path is rendered through components[name]
RenderedThroughComponent(path) ==
  \E e \in output.elements :
    e.path = path /\ e.tagName = NodeAt(path).name /\ e.component
\* the element's node type is in the passThrough list handed to remark-rehype
ReachesMdxElements(path) == IsPassedThrough(NodeAt(path), passed)
\* every element around the one at path is in the output
EnclosingAppear(path) ==
  \A q \in DocPaths : (IsPrefix(q, path) /\ q # path) => Appears(q)

DocumentRendered ==
  pc = "rendered" /\ "children" \in DOMAIN props /\ CallerComponents.tag = "object"

WithoutElementFilters ==
  [k \in (DOMAIN props) \ {"allowedElements", "disallowedElements"} |-> props[k]]

FiltersForwarded ==
  /\ Get(passed, "allowedElements") = Get(props, "allowedElements")
  /\ Get(passed, "disallowedElements") = Get(props, "disallowedElements")
  /\ passed["rehypePlugins"] = ReactMarkdownWithMdx(WithoutElementFilters)["rehypePlugins"]

\* react-markdown's own filter rejects the name: it is in disallowedElements,
\* or allowedElements is supplied without it
NameFiltered(name) ==
  \/ /\ Get(props, "disallowedElements").tag = "array"
     /\ name \in Range(Get(props, "disallowedElements").items)
  \/ /\ Get(props, "allowedElements").tag = "array"
     /\ name \notin Range(Get(props, "allowedElements").items)

NameAllowed(name) ==
  /\ Get(props, "allowedElements").tag = "array"
  /\ name \in Range(Get(props, "allowedElements").items)

C14_RemarkOrder ==
  pc # "idle" =>
    LET m == PassedRemarkPlugins
        r == CallerRemarkPlugins
        x == CallerRemarkMdxPlugins
    IN  /\ m[1] = remarkMdx
        /\ 2 + Len(r) \in DOMAIN m
        /\ m[2 + Len(r)] = remarkUnravelMdx
        /\ \A i \in DOMAIN r : m[1 + i] = r[i]
        /\ \A j \in DOMAIN x :
             2 + Len(r) + j \in DOMAIN m /\ m[2 + Len(r) + j] = x[j]

C14_Witness ==
  /\ pc = "created"
  /\ Len(CallerRemarkPlugins) = 1
  /\ Len(CallerRemarkMdxPlugins) = 2
  /\ CallerRemarkPlugins[1] # CallerRemarkMdxPlugins[1]
  /\ PassedRemarkPlugins[3] = remarkUnravelMdx
  /\ PassedRemarkPlugins[5] = CallerRemarkMdxPlugins[2]

NullishList(k) == Get(props, k) = Undefined \/ Get(props, k) = Null

\* what the handler hands on when the caller's list k is the empty list
PassedWithEmptyList(k) ==
  ReactMarkdownWithMdx((k :> Arr(<<>>)) @@ props)

\* C15: a plugin list prop that is null or left out counts as the empty
\* list, for each of the three props on its own: the render yields the
\* lists it yields for []; with all three null or left out the remark list
\* is [remarkMdx, remarkUnravelMdx] and the rehype list is the
\* rehypeMdxElements entry alone.
C15_NullishListIsEmptyList ==
  pc # "idle" =>
    /\ \A k \in {"remarkPlugins", "remarkMdxPlugins", "rehypePlugins"} :
         NullishList(k) =>
           /\ passed["remarkPlugins"] = PassedWithEmptyList(k)["remarkPlugins"]
           /\ passed["rehypePlugins"] = PassedWithEmptyList(k)["rehypePlugins"]
    /\ (NullishList("remarkPlugins") /\ NullishList("remarkMdxPlugins")) =>
         PassedRemarkPlugins = <<remarkMdx, remarkUnravelMdx>>
    /\ NullishList("rehypePlugins") =>
         /\ Len(PassedRehypePlugins) = 1
         /\ IsMdxElementsEntry(PassedRehypePlugins[1])
         /\ PassedRehypePlugins[1].tag = "tuple"

C15_Witness ==
  /\ pc = "created"
  /\ Get(props, "remarkPlugins") = Null
  /\ "remarkMdxPlugins" \notin DOMAIN props
  /\ Get(props, "rehypePlugins") = Null
  /\ PassedRemarkPlugins = <<remarkMdx, remarkUnravelMdx>>
  /\ Len(PassedRehypePlugins) = 1


----------------------------------------------------------------------------
(* mdxComponent                                                            *)

MdxRendered == mdxPc # "idle"

NodeProperties ==
  IF mdxArgs.node = Undefined THEN EmptyObject ELSE mdxArgs.node.properties

\* the object this render's props merge into: the node's properties with
\* children replaced by the children prop
MergedInput ==
  [k \in (DOMAIN NodeProperties) \cup {"children"} |->
     IF k = "children" THEN mdxArgs.children ELSE NodeProperties[k]]

Validation == parse(mdxArgs.validator, MergedInput)

EventsAt(e) == {i \in DOMAIN trace : trace[i].event = e}

\* C11: Component is invoked only after validator.parse was called on the
\* merged object of this render's node.properties and children and
\* returned; no render invokes Component without that.
C11_ValidationPrecedesInvocation ==
  \A i \in EventsAt("Component") :
    \E h \in EventsAt("validator.parse"), j \in EventsAt("returned") :
      /\ h < j
      /\ j < i
      /\ trace[h].value = MergedInput
      /\ EventsAt("threw") = {}

C11_Witness ==
  /\ mdxPc = "invoked"
  /\ EventsAt("Component") # {}
  /\ mdxArgs.node # Undefined
  /\ mdxArgs.validator.shape # EmptyObject

\* C12: when the merged object does not match the schema, the render fails
\* with exactly the validator's error, Component is not invoked and no
\* element is returned.
C12_ValidatorErrorSurfaces ==
  (MdxRendered /\ ~Validation.ok) =>
    /\ mdxResult.thrown = Validation.value
    /\ mdxResult.element = NoElement
    /\ EventsAt("Component") = {}
    /\ mdxPc = "ended"

C12_Witness ==
  /\ MdxRendered
  /\ ~Validation.ok
  /\ mdxResult.thrown.tag = "ZodError"
  /\ mdxResult.thrown.issues # {}

\* C16: the validated object holds every key of node.properties with its
\* value, except children, which always carries the children prop, even
\* when that is undefined; without a node the validated object is just
\* {children}.
C16_ValidatedObject ==
  MdxRendered =>
    /\ trace # <<>>
    /\ trace[1].event = "validator.parse"
    /\ LET o == trace[1].value
       IN  /\ DOMAIN o = (DOMAIN NodeProperties) \cup {"children"}
           /\ o["children"] = mdxArgs.children
           /\ \A k \in (DOMAIN NodeProperties) \ {"children"} :
                o[k] = NodeProperties[k]
           /\ (mdxArgs.node = Undefined) => (DOMAIN o = {"children"})

C16_Witness ==
  /\ MdxRendered
  /\ "children" \in DOMAIN NodeProperties
  /\ "title" \in DOMAIN NodeProperties
  /\ mdxArgs.children = Undefined
  /\ trace[1].value["children"] = Undefined

\* the properties React.createElement takes out of the props it is given
TakenByCreateElement == {"key"}

ComponentInvokedOnceWith(o) ==
  /\ Cardinality(EventsAt("Component")) = 1
  /\ \A i \in EventsAt("Component") : trace[i].value = o

----------------------------------------------------------------------------
(* Renders and the caller's data                                           *)

MergedProps == {"remarkPlugins", "rehypePlugins", "remarkRehypeOptions"}

\* the objects a render allocated for the merged configuration
AllocatedBy(i) == {history[i].passed[k].id : k \in MergedProps}

\* the merged configuration a render handed on, as it is now
Configuration(i) == Deref(heap, history[i].passed)

\* C13: after any sequence of renders the caller's plugin lists, options
\* and components are what they were; each render built new merged lists
\* and a new options object; renders with the same props have the same
\* merged configuration, whatever was rendered before.
C13_RendersLeaveCallerDataAlone ==
  /\ \A id \in DOMAIN callerData : heap[id] = callerData[id]
  /\ \A i \in DOMAIN history :
       /\ Cardinality(AllocatedBy(i)) = Cardinality(MergedProps)
       /\ AllocatedBy(i) \cap DOMAIN callerData = {}
       /\ \A j \in DOMAIN history : (j # i) => (AllocatedBy(i) \cap AllocatedBy(j) = {})
       /\ \A j \in DOMAIN history :
            (history[i].props = history[j].props) => (Configuration(i) = Configuration(j))
       /\ Configuration(i) = ReactMarkdownWithMdx(Deref(callerData, history[i].props))

C13_Witness ==
  /\ Len(history) = MaxRenders
  /\ history[1].props = history[Len(history)].props
  /\ DOMAIN history[1].props = Destructured
  /\ Len(heap) > Len(callerData)

====
